---- MODULE Spec2Model ----
(***************************************************************************)
(* OctoPrint-ReconnectGuru: the udev monitor thread, the filter match and  *)
(* the delayed connection attempts of ReconnectGuruPlugin                  *)
(* (src/octoprint_reconnect_guru/__init__.py).                             *)
(*                                                                         *)
(* Python str values that the code inspects (settings filters, udev        *)
(* attributes) are sequences of one-character strings, so that strip(),    *)
(* split(":") and == are computed, not assumed.  A printable ASCII          *)
(* character is the string of that character; tab, newline, carriage       *)
(* return and form feed are "\t", "\n", "\r" and "\f"; every other           *)
(* character is the string "U+" followed by the four upper-case hex digits *)
(* of its code point, as "U+000B", "U+00A0" or "U+2003".  Device node      *)
(* paths and profile ids are only passed through and are plain strings.    *)
(***************************************************************************)
EXTENDS Naturals, Sequences, FiniteSets

\* ------------------------------------------------------------------ bounds
\* Number of hotplug notifications the OS source delivers in one run.
MaxEvents == 2

\* ----------------------------------------------------------- str helpers
\* str.strip() with no argument removes leading/trailing whitespace: every
\* character for which str.isspace() holds, the ASCII ones and the Unicode ones.
IsSpace(c) ==
    \/ c \in {" ", "\t", "\n", "\r", "\f"}
    \/ c \in
         {"U+000B", "U+001C", "U+001D", "U+001E", "U+001F", "U+0085", "U+00A0",
          "U+1680", "U+2000", "U+2001", "U+2002", "U+2003", "U+2004", "U+2005",
          "U+2006", "U+2007", "U+2008", "U+2009", "U+200A", "U+2028", "U+2029",
          "U+202F", "U+205F", "U+3000"}

RECURSIVE LStrip(_)
LStrip(s) == IF s = <<>> THEN <<>>
             ELSE IF IsSpace(Head(s)) THEN LStrip(Tail(s)) ELSE s

RECURSIVE RStrip(_)
RStrip(s) == IF s = <<>> THEN <<>>
             ELSE IF IsSpace(s[Len(s)]) THEN RStrip(SubSeq(s, 1, Len(s) - 1)) ELSE s

Strip(s) == RStrip(LStrip(s))

\* sep in s
Contains(s, sep) == \E i \in 1..Len(s) : s[i] = sep

\* Index of the first sep in s (s must contain sep).
FirstIndex(s, sep) == CHOOSE i \in 1..Len(s) :
                         s[i] = sep /\ \A j \in 1..(i - 1) : s[j] # sep

\* s.split(sep): the fields between the separators, empty fields kept.
RECURSIVE Split(_, _)
Split(s, sep) == IF ~Contains(s, sep) THEN <<s>>
                 ELSE LET i == FirstIndex(s, sep)
                      IN  <<SubSeq(s, 1, i - 1)>> \o Split(SubSeq(s, i + 1, Len(s)), sep)

\* device.get(key, default) / dict.get(key, default)
Get(d, key, default) == IF key \in DOMAIN d THEN d[key] ELSE default

\* Truthiness of a Python str: non-empty.
Truthy(s) == s # <<>>

\* ------------------------------------------------------ literals of the code
NA == <<"N", "/", "A">>
NoneEmpty == <<"N", "o", "n", "e", "/", "E", "m", "p", "t", "y">>
Unknown == <<"U", "n", "k", "n", "o", "w", "n">>
Colon == ":"

\* get_settings_defaults()
SettingsDefaults ==
    [enabled |-> TRUE,
     connect_delay_seconds |-> 2,
     filter_vendor_id |-> <<>>,
     filter_product_id |-> <<>>,
     filter_serial |-> <<>>,
     filter_port |-> <<>>,
     message_on_connect |-> FALSE]

\* ---------------------------------------------------------- pure functions
\* A mutant of DerivePort: the last colon-delimited field is taken instead of
\* the second.
DerivePortLast(usb_path) ==
    IF Contains(usb_path, Colon)
    THEN LET parts == Split(usb_path, Colon)
         IN  IF Len(parts) >= 2 THEN parts[Len(parts)] ELSE Unknown
    ELSE Unknown

\* _handle_device_added, lines 251-259: the port is the second colon-delimited
\* field of ID_PATH, "Unknown" when there is no colon.
DerivePort(usb_path) ==
    IF Contains(usb_path, Colon)
    THEN LET parts == Split(usb_path, Colon)
         IN  IF Len(parts) >= 2 THEN parts[2] ELSE Unknown
    ELSE Unknown

\* A mutant of _device_matches_filters: the first configured filter that equals
\* its field accepts the device, the later filters are not looked at.
_device_matches_first_filter(s, vendor, product, serial_num, port) ==
    LET filter_vendor  == Strip(s.filter_vendor_id)
        filter_product == Strip(s.filter_product_id)
        filter_serial  == Strip(s.filter_serial)
        filter_port    == Strip(s.filter_port)
    IN  IF ~(Truthy(filter_vendor) \/ Truthy(filter_product)
               \/ Truthy(filter_serial) \/ Truthy(filter_port))
        THEN TRUE
        ELSE IF Truthy(filter_vendor) THEN vendor = filter_vendor
        ELSE IF Truthy(filter_product) THEN product = filter_product
        ELSE IF Truthy(filter_serial) THEN serial_num = filter_serial
        ELSE port = filter_port

\* _device_matches_filters(vendor, product, serial_num, port) under settings s:
\* the four filters are read and stripped, then checked in order with early
\* returns.
_device_matches_filters(s, vendor, product, serial_num, port) ==
    LET filter_vendor  == Strip(s.filter_vendor_id)
        filter_product == Strip(s.filter_product_id)
        filter_serial  == Strip(s.filter_serial)
        filter_port    == Strip(s.filter_port)
    IN  IF ~(Truthy(filter_vendor) \/ Truthy(filter_product)
               \/ Truthy(filter_serial) \/ Truthy(filter_port))
        THEN TRUE
        ELSE IF Truthy(filter_vendor) /\ vendor # filter_vendor THEN FALSE
        ELSE IF Truthy(filter_product) /\ product # filter_product THEN FALSE
        ELSE IF Truthy(filter_serial) /\ serial_num # filter_serial THEN FALSE
        ELSE IF Truthy(filter_port) /\ port # filter_port THEN FALSE
        ELSE TRUE

\* The normalized fields _handle_device_added extracts (lines 242-259).
Vendor(device)    == Get(device.attrs, "ID_VENDOR_ID", NA)
Product(device)   == Get(device.attrs, "ID_MODEL_ID", NA)
SerialNum(device) == Get(device.attrs, "ID_SERIAL_SHORT", NoneEmpty)
UsbPath(device)   == Get(device.attrs, "ID_PATH", NA)
Port(device)      == DerivePort(UsbPath(device))

\* A mutant of DeviceMatches: the result of the match is not used.
DeviceMatchesAlways(s, device) == TRUE

\* The match of line 270 on a udev device.
DeviceMatches(s, device) ==
    _device_matches_filters(s, Vendor(device), Product(device),
                            SerialNum(device), Port(device))

\* ------------------------------------------------------------ environment
\* Host profile manager: get_default() returns the profile dict.
DefaultProfile == [id |-> "ender3", name |-> "Ender 3"]

\* printer_profile.get('id', '_default'), line 361.
ProfileId(printer_profile) == Get(printer_profile, "id", "_default")

\* Two tty devices the OS may announce.
Arduino ==
    [node |-> "/dev/ttyUSB0",
     attrs |-> [ID_VENDOR_ID |-> <<"2", "3", "4", "1">>,
                ID_MODEL_ID |-> <<"0", "0", "4", "3">>,
                ID_SERIAL_SHORT |-> <<"A", "1">>,
                ID_PATH |-> <<"p", "l", "a", "t", "f", "o", "r", "m", "-", "3", "f", "9", "8", "0", "0", "0", "0", "-", "u", "s", "b", "-", "1", ".", "1", ":", "1", ".", "2", ":", "1", ".", "0">>]]

\* A clone without serial number whose ID_PATH holds no colon.
Clone ==
    [node |-> "/dev/ttyUSB1",
     attrs |-> [ID_VENDOR_ID |-> <<"1", "a", "8", "6">>,
                ID_MODEL_ID |-> <<"7", "5", "2", "3">>,
                ID_PATH |-> <<"p", "c", "i", "-", "0", "0", "0", "0">>]]

Devices == {Arduino, Clone}

\* The notifications of the OS source: an add of either device, or another
\* udev action, for which the loop looks at nothing but device.action.
Events ==
    {[action |-> "add", device |-> d] : d \in Devices}
    \cup {[action |-> "remove", device |-> Arduino]}

\* Values a settings-save may store for filter_vendor_id.
VendorFilter == <<"\f", "2", "3", "4", "1", "U+00A0">>
SavedVendorFilters == {<<>>, VendorFilter}

\* Inputs of the filter match: stored filter strings (untrimmed) and udev
\* attribute values, over a small alphabet.
FilterStrings == {<<>>, <<"\f">>, <<"a">>, <<" ", "a", " ">>, <<"b">>}
FieldValues == {<<"a">>, <<"b">>, <<" ", "a">>}
PathValues == {<<"x", ":", "a">>, <<"x", ":", "b", ":", "0">>, <<"x">>}
MatchSettings ==
    {[enabled |-> TRUE, connect_delay_seconds |-> 2, filter_vendor_id |-> fv,
      filter_product_id |-> fp, filter_serial |-> fs, filter_port |-> fo,
      message_on_connect |-> FALSE] :
        fv \in FilterStrings, fp \in FilterStrings, fs \in FilterStrings,
        fo \in FilterStrings}
MatchDevices ==
    {[node |-> "/dev/ttyUSB0",
      attrs |-> [ID_VENDOR_ID |-> v, ID_MODEL_ID |-> p, ID_SERIAL_SHORT |-> sn,
                 ID_PATH |-> path]] :
        v \in FieldValues, p \in FieldValues, sn \in FieldValues,
        path \in PathValues}

\* A settings-save carries the changed keys only; one key per save here.
SaveData ==
    {[enabled |-> b] : b \in BOOLEAN}
    \cup {[message_on_connect |-> b] : b \in BOOLEAN}
    \cup {[filter_vendor_id |-> f] : f \in SavedVendorFilters}

\* Errors a single notification's handling may raise inside the try block of
\* _handle_device_added: reading attributes, matching, scheduling.
HandlerErrors == {"none", "attrs", "match", "schedule"}

\* ------------------------------------------------------------------ state
VARIABLES
    settings,          \* the plugin's persisted settings (self._settings)
    _monitor,          \* self._monitor: "None" or "Monitor"
    _monitor_thread,   \* self._monitor_thread: "None", "unstarted" (a thread
                       \* whose start() raised), or the worker's position
    _stop_monitoring,  \* self._stop_monitoring
    pending,           \* the notification poll() will return next, or NoEvent
    next_id,           \* number of the next notification of the OS source
    handled,           \* per notification: what the loop did with it
    tasks,             \* per notification: its delayed_connect thread
    printer_closed,    \* host printer: is_closed_or_error()
    caller,            \* the thread inside _stop_udev_monitor: "idle" or "join"
    last_call,         \* the last start or stop call that ended, with its
                       \* outcome
    stop_snapshot,     \* the monitor fields as that stop left them
    start_delay,       \* connect_delay_seconds as stored at the last start
    stopped_asleep     \* the delayed_connect threads, still asleep, that a
                       \* stop has found asleep

vars == <<settings, _monitor, _monitor_thread, _stop_monitoring, pending, next_id,
          handled, tasks, printer_closed, caller, last_call,
          stop_snapshot, start_delay, stopped_asleep>>

Ids == 1..MaxEvents
NoEvent == [id |-> 0]
NoTask == [pc |-> "none", node |-> "", delay |-> 0, serial |-> "unopened",
           requests |-> <<>>]

\* threading.Thread.is_alive() of the worker: started and inside _monitor_loop.
is_alive(thread) == thread \in {"started", "filter", "poll", "handler", "schedule"}

\* Final positions of a delayed_connect thread.
Finished(task) ==
    task.pc \in {"cancelled", "skipped", "port_failed", "failed", "connected"}

\* The fields _stop_udev_monitor works on.
MonitorState == <<_stop_monitoring, _monitor, _monitor_thread # "None">>

\* No stop has returned since the last start.
NoSnapshot == <<FALSE, "None", FALSE>>

\* __init__, lines 68-72, with the settings defaults of lines 114-123.
Init ==
    /\ settings = SettingsDefaults
    /\ _monitor = "None"
    /\ _monitor_thread = "None"
    /\ _stop_monitoring = FALSE
    /\ pending = NoEvent
    /\ next_id = 1
    /\ handled = [i \in Ids |-> "none"]
    /\ tasks = [i \in Ids |-> NoTask]
    /\ printer_closed = TRUE
    /\ caller = "idle"
    /\ last_call = "none"
    /\ stop_snapshot = NoSnapshot
    /\ start_delay = 0
    /\ stopped_asleep = {}

\* The record of a stop that returns: the first since a start, or one more.
AfterStop(call) == IF call \in {"stop", "stop_again"} THEN "stop_again" ELSE "stop"

\* ----------------------------------------------------------- start / stop
\* A mutant of _start_udev_monitor: the test for a live thread is missing.
_start_udev_monitor_unguarded ==
    /\ \E raised \in BOOLEAN :
          /\ _stop_monitoring' = FALSE
          /\ _monitor_thread' = IF raised THEN "unstarted" ELSE "started"
          /\ last_call' = IF raised THEN "start_raised" ELSE "started"
          /\ start_delay' = IF raised THEN start_delay
                                       ELSE settings.connect_delay_seconds
    /\ stop_snapshot' = NoSnapshot

\* _start_udev_monitor, lines 189-198. Thread.start() (line 197) may raise, the
\* OS refusing a new thread: the exception leaves the call after lines 195-196
\* have cleared the flag and stored a thread object that never runs.
_start_udev_monitor ==
    /\ IF is_alive(_monitor_thread)
       THEN /\ last_call' = "already"
            /\ UNCHANGED <<_stop_monitoring, _monitor_thread, start_delay>>
       ELSE \E raised \in BOOLEAN :
               /\ _stop_monitoring' = FALSE
               /\ _monitor_thread' = IF raised THEN "unstarted" ELSE "started"
               /\ last_call' = IF raised THEN "start_raised" ELSE "started"
               /\ start_delay' = IF raised THEN start_delay
                                            ELSE settings.connect_delay_seconds
    /\ stop_snapshot' = NoSnapshot

\* on_after_startup, lines 151-157.
on_after_startup ==
    /\ caller = "idle"
    /\ IF ~settings.enabled
       THEN UNCHANGED <<_stop_monitoring, _monitor_thread, last_call,
                        stop_snapshot, start_delay>>
       ELSE _start_udev_monitor
    /\ UNCHANGED <<settings, _monitor, pending, next_id, handled, tasks,
                   printer_closed, caller, stopped_asleep>>

\* _stop_udev_monitor, lines 202-206: return at once without a thread, else
\* raise the flag; on_shutdown (lines 159-161) is its caller.
StopBegin ==
    /\ caller = "idle"
    /\ IF _monitor_thread = "None"
       THEN /\ last_call' = AfterStop(last_call)
            /\ stop_snapshot' = MonitorState
            /\ UNCHANGED <<_stop_monitoring, caller, start_delay, stopped_asleep>>
       ELSE /\ _stop_monitoring' = TRUE
            /\ caller' = "join"
            /\ stopped_asleep' =
                  stopped_asleep \cup {n \in Ids : tasks[n].pc = "sleep"}
            /\ UNCHANGED <<last_call, stop_snapshot, start_delay>>
    /\ UNCHANGED <<settings, _monitor, _monitor_thread, pending, next_id, handled,
                   tasks, printer_closed>>

\* A mutant of StopFinish: the monitor handle is dropped only inside the branch
\* of the thread that is still alive.
StopFinishAliveOnly ==
    /\ caller = "join"
    /\ _monitor' = IF is_alive(_monitor_thread) THEN "None" ELSE _monitor
    /\ caller' = "idle"
    /\ last_call' = AfterStop(last_call)
    /\ stop_snapshot' = <<_stop_monitoring, _monitor', _monitor_thread # "None">>
    /\ UNCHANGED <<settings, _monitor_thread, _stop_monitoring, pending, next_id,
                   handled, tasks, printer_closed, start_delay, stopped_asleep>>

\* _stop_udev_monitor, lines 208-212: join(timeout=5) returns when the worker has
\* ended or the timeout has passed, then the monitor handle is dropped.
StopFinish ==
    /\ caller = "join"
    /\ _monitor' = "None"
    /\ caller' = "idle"
    /\ last_call' = AfterStop(last_call)
    /\ stop_snapshot' = <<_stop_monitoring, "None", _monitor_thread # "None">>
    /\ UNCHANGED <<settings, _monitor_thread, _stop_monitoring, pending, next_id,
                   handled, tasks, printer_closed, start_delay, stopped_asleep>>

\* ------------------------------------------------------------ the worker
\* _monitor_loop, lines 217-218: open the netlink subscription; an exception
\* here is caught by the loop's own except (lines 230-231) and ends the thread.
MonitorOpen ==
    /\ _monitor_thread = "started"
    /\ \E ok \in BOOLEAN :
          IF ok THEN /\ _monitor' = "Monitor"
                     /\ _monitor_thread' = "filter"
                ELSE /\ _monitor_thread' = "open_error"
                     /\ UNCHANGED _monitor
    /\ UNCHANGED <<settings, _stop_monitoring, pending, next_id, handled, tasks,
                   printer_closed, caller, last_call,
                   stop_snapshot, start_delay, stopped_asleep>>

\* _monitor_loop, lines 219-223: self._monitor is read again for filter_by and
\* poll; a handle that a stop has set to None raises AttributeError, and
\* filter_by itself may raise on a live handle; both are caught by lines 230-231.
MonitorFilter ==
    /\ _monitor_thread = "filter"
    /\ \E raised \in BOOLEAN :
          _monitor_thread' = IF _monitor = "None" \/ raised THEN "error" ELSE "poll"
    /\ UNCHANGED <<settings, _monitor, _stop_monitoring, pending, next_id, handled,
                   tasks, printer_closed, caller, last_call,
                   stop_snapshot, start_delay, stopped_asleep>>

\* The OS source: a notification for a tty device reaches the polling worker.
Arrive ==
    /\ _monitor_thread = "poll"
    /\ pending = NoEvent
    /\ next_id <= MaxEvents
    /\ \E e \in Events :
          pending' = [id |-> next_id, action |-> e.action, device |-> e.device]
    /\ next_id' = next_id + 1
    /\ UNCHANGED <<settings, _monitor, _monitor_thread, _stop_monitoring, handled,
                   tasks, printer_closed, caller, last_call,
                   stop_snapshot, start_delay, stopped_asleep>>

\* _monitor_loop, lines 223 and 230-231: poll() raises while the worker waits for
\* a device; the exception leaves the loop and the thread ends.
PollRaises ==
    /\ _monitor_thread = "poll"
    /\ pending = NoEvent
    /\ _monitor_thread' = "error"
    /\ UNCHANGED <<settings, _monitor, _stop_monitoring, pending, next_id, handled,
                   tasks, printer_closed, caller, last_call,
                   stop_snapshot, start_delay, stopped_asleep>>

\* A mutant of LoopBreak: the stop flag is looked at after the notification has
\* been handled, not before.
LoopBreakLate ==
    /\ _monitor_thread = "poll"
    /\ pending # NoEvent
    /\ _stop_monitoring
    /\ _monitor_thread' = "break"
    /\ IF pending.action = "add" /\ settings.enabled
          /\ DeviceMatches(settings, pending.device)
       THEN /\ tasks' = [tasks EXCEPT ![pending.id] =
                           [NoTask EXCEPT !.pc = "sleep",
                                          !.node = pending.device.node,
                                          !.delay = settings.connect_delay_seconds]]
            /\ handled' = [handled EXCEPT ![pending.id] = "scheduled"]
       ELSE /\ tasks' = tasks
            /\ handled' = [handled EXCEPT ![pending.id] = "dropped"]
    /\ pending' = NoEvent
    /\ UNCHANGED <<settings, _monitor, _stop_monitoring, next_id,
                   printer_closed, caller, last_call,
                   stop_snapshot, start_delay, stopped_asleep>>

\* _monitor_loop, lines 224-225: the stop flag is looked at when poll() returns a
\* device; the device is dropped and the loop, with it the thread, ends.
LoopBreak ==
    /\ _monitor_thread = "poll"
    /\ pending # NoEvent
    /\ _stop_monitoring
    /\ _monitor_thread' = "break"
    /\ handled' = [handled EXCEPT ![pending.id] = "dropped"]
    /\ pending' = NoEvent
    /\ UNCHANGED <<settings, _monitor, _stop_monitoring, next_id, tasks,
                   printer_closed, caller, last_call,
                   stop_snapshot, start_delay, stopped_asleep>>

\* _monitor_loop, line 227: a device whose action is not 'add' is passed over.
LoopSkip ==
    /\ _monitor_thread = "poll"
    /\ pending # NoEvent
    /\ ~_stop_monitoring
    /\ pending.action # "add"
    /\ handled' = [handled EXCEPT ![pending.id] = "ignored"]
    /\ pending' = NoEvent
    /\ UNCHANGED <<settings, _monitor, _monitor_thread, _stop_monitoring, next_id,
                   tasks, printer_closed, caller, last_call,
                   stop_snapshot, start_delay, stopped_asleep>>

\* A mutant of _schedule_connection: delayed_connect is called in the worker
\* itself instead of in a thread of its own.
_schedule_connection_inline(id, device_node) ==
    /\ tasks' = [tasks EXCEPT ![id] =
                    [pc |-> "sleep", node |-> device_node,
                     delay |-> settings.connect_delay_seconds,
                     serial |-> "unopened", requests |-> <<>>]]
    /\ _monitor_thread' = "in_task"

\* _schedule_connection, lines 310-321: a daemon thread that sleeps the delay
\* read now, for the device node given; start() returns at once and the handler
\* returns to the loop's poll.
_schedule_connection(id, device_node) ==
    /\ tasks' = [tasks EXCEPT ![id] =
                    [pc |-> "sleep", node |-> device_node,
                     delay |-> settings.connect_delay_seconds,
                     serial |-> "unopened", requests |-> <<>>]]
    /\ _monitor_thread' = "poll"

\* _handle_device_added, lines 276-277: the exception is logged and the handler
\* returns to the loop, which polls again.
HandlerExcept == "poll"

\* _monitor_loop, lines 227-228 with _handle_device_added, lines 236-238: the
\* handler reads `enabled` before its try block. A read that raises leaves the
\* handler and the loop and is caught by lines 230-231, where the worker ends.
LoopHandleAdded ==
    /\ _monitor_thread = "poll"
    /\ pending # NoEvent
    /\ ~_stop_monitoring
    /\ pending.action = "add"
    /\ \E raised \in BOOLEAN :
          IF raised
          THEN /\ handled' = [handled EXCEPT ![pending.id] = "worker_died"]
               /\ _monitor_thread' = "error"
               /\ pending' = NoEvent
          ELSE IF ~settings.enabled
          THEN /\ handled' = [handled EXCEPT ![pending.id] = "disabled"]
               /\ pending' = NoEvent
               /\ UNCHANGED _monitor_thread
          ELSE /\ _monitor_thread' = "handler"
               /\ UNCHANGED <<handled, pending>>
    /\ UNCHANGED <<settings, _monitor, _stop_monitoring, next_id, tasks,
                   printer_closed, caller, last_call,
                   stop_snapshot, start_delay, stopped_asleep>>

\* _handle_device_added, lines 240-274 and 276-277: the attributes are read, the
\* port derived and the filters, read now, compared. (Lines 281-284 read the four
\* filters one after the other; they are read in one step here.)
HandlerMatch ==
    /\ _monitor_thread = "handler"
    /\ \E err \in HandlerErrors \ {"schedule"} :
          IF err # "none"
          THEN /\ handled' = [handled EXCEPT ![pending.id] = "error"]
               /\ _monitor_thread' = HandlerExcept
               /\ pending' = NoEvent
          ELSE IF DeviceMatches(settings, pending.device)
          THEN /\ _monitor_thread' = "schedule"
               /\ UNCHANGED <<handled, pending>>
          ELSE /\ handled' = [handled EXCEPT ![pending.id] = "nomatch"]
               /\ _monitor_thread' = "poll"
               /\ pending' = NoEvent
    /\ UNCHANGED <<settings, _monitor, _stop_monitoring, next_id, tasks,
                   printer_closed, caller, last_call,
                   stop_snapshot, start_delay, stopped_asleep>>

\* _handle_device_added, line 272 with _schedule_connection, lines 310-321, and
\* lines 276-277: the delay is read now and the thread started.
HandlerSchedule ==
    /\ _monitor_thread = "schedule"
    /\ \E err \in {"none", "schedule"} :
          IF err # "none"
          THEN /\ handled' = [handled EXCEPT ![pending.id] = "error"]
               /\ _monitor_thread' = HandlerExcept
               /\ UNCHANGED tasks
          ELSE /\ _schedule_connection(pending.id, pending.device.node)
               /\ handled' = [handled EXCEPT ![pending.id] = "scheduled"]
    /\ pending' = NoEvent
    /\ UNCHANGED <<settings, _monitor, _stop_monitoring, next_id, printer_closed,
                   caller, last_call,
                   stop_snapshot, start_delay, stopped_asleep>>

\* ------------------------------------------------- delayed_connect threads
TaskFrame == <<settings, _monitor, _monitor_thread, _stop_monitoring, pending,
               next_id, handled, caller, last_call,
               stop_snapshot, start_delay, stopped_asleep>>

\* delayed_connect, lines 316-318: after the sleep the stop flag decides whether
\* _attempt_connection is called at all.
Wake(n) ==
    /\ tasks[n].pc = "sleep"
    /\ tasks' = [tasks EXCEPT ![n].pc =
                    IF _stop_monitoring THEN "cancelled" ELSE "check"]
    /\ stopped_asleep' = stopped_asleep \ {n}
    /\ UNCHANGED <<settings, _monitor, _monitor_thread, _stop_monitoring, pending,
                   next_id, handled, printer_closed, caller, last_call,
                   stop_snapshot, start_delay>>

\* A mutant of CheckPrinter: the test of the printer state is inverted.
CheckPrinterInverted(n) ==
    /\ tasks[n].pc = "check"
    /\ \E raised \in BOOLEAN :
          tasks' = [tasks EXCEPT ![n].pc =
                       IF raised THEN "failed"
                       ELSE IF printer_closed THEN "skipped" ELSE "probe"]
    /\ UNCHANGED <<TaskFrame, printer_closed>>

\* A mutant of CheckPrinter: the printer state is not looked at.
CheckPrinterMissing(n) ==
    /\ tasks[n].pc = "check"
    /\ \E raised \in BOOLEAN :
          tasks' = [tasks EXCEPT ![n].pc = IF raised THEN "failed" ELSE "probe"]
    /\ UNCHANGED <<TaskFrame, printer_closed>>

\* _attempt_connection, lines 328-332 and 369-370: a printer that is not closed
\* or in error ends the attempt; is_closed_or_error() is called inside the outer
\* try, and when it raises the attempt ends at "Connection attempt failed".
CheckPrinter(n) ==
    /\ tasks[n].pc = "check"
    /\ \E raised \in BOOLEAN :
          tasks' = [tasks EXCEPT ![n].pc =
                       IF raised THEN "failed"
                       ELSE IF ~printer_closed THEN "skipped" ELSE "probe"]
    /\ UNCHANGED <<TaskFrame, printer_closed>>

\* A mutant of ProbePort: the return after a failed open is missing and the
\* attempt goes on to the connect.
ProbePortNoReturn(n) ==
    /\ tasks[n].pc = "probe"
    /\ \E r \in {"open", "not_open", "raise"} :
          tasks' = [tasks EXCEPT
                       ![n].pc = IF r = "open" THEN "opened" ELSE "connect",
                       ![n].serial = IF r = "open" THEN "open" ELSE "unopened"]
    /\ UNCHANGED <<TaskFrame, printer_closed>>

\* _attempt_connection, lines 335-342 and 352-357: serial.Serial(...) opens the
\* node (with or without the global baudrate), raises, or yields a port that is
\* not open; only an open port goes on.
ProbePort(n) ==
    /\ tasks[n].pc = "probe"
    /\ \E r \in {"open", "not_open", "raise"} :
          tasks' = [tasks EXCEPT
                       ![n].pc = IF r = "open" THEN "opened" ELSE "port_failed",
                       ![n].serial = IF r = "open" THEN "open" ELSE "unopened"]
    /\ UNCHANGED <<TaskFrame, printer_closed>>

\* _attempt_connection, lines 344-351 and 355-357: the read of
\* message_on_connect, the optional M117 writes and the close, all inside the try
\* of the port test. The settings read may raise, a write may raise when the
\* message is on, and close() may raise; each reaches "Failed to test port" and
\* returns. Before close() the port is still open; a close() that raises leaves
\* it open or closed.
MessageAndClose(n) ==
    /\ tasks[n].pc = "opened"
    /\ \E r \in {"ok", "settings_raise", "write_raise", "close_raise"} :
          /\ r = "write_raise" => settings.message_on_connect
          /\ IF r = "ok"
             THEN tasks' = [tasks EXCEPT ![n].pc = "connect", ![n].serial = "closed"]
             ELSE \E left \in (IF r = "close_raise" THEN {"open", "closed"}
                                                     ELSE {"open"}) :
                     tasks' = [tasks EXCEPT ![n].pc = "port_failed",
                                            ![n].serial = left]
    /\ UNCHANGED <<TaskFrame, printer_closed>>

\* _attempt_connection, lines 360-370: the default profile's id and the connect
\* call; the host goes out of closed/error when it takes the request. The
\* profile lookup (lines 360-361) may raise before the call, and the call may
\* raise; both are caught and logged by lines 369-370.
Connect(n) ==
    /\ tasks[n].pc = "connect"
    /\ \E r \in {"ok", "raise", "profile_raise"} :
          /\ tasks' = [tasks EXCEPT
                          ![n].pc = IF r = "ok" THEN "connected" ELSE "failed",
                          ![n].requests =
                              IF r = "profile_raise" THEN @
                              ELSE Append(@, [port |-> tasks[n].node,
                                              profile |-> ProfileId(DefaultProfile)])]
          /\ printer_closed' = IF r = "ok" THEN FALSE ELSE printer_closed
    /\ UNCHANGED TaskFrame

\* --------------------------------------------------------- other callers
\* The host printer changes state on its own: a manual connect, a disconnect,
\* an error.
HostChange ==
    /\ printer_closed' = ~printer_closed
    /\ UNCHANGED <<TaskFrame, tasks>>

\* on_settings_save, lines 125-130: the saved keys replace the stored ones;
\* nothing else is touched.
on_settings_save(data) ==
    /\ settings' = [k \in DOMAIN settings |->
                       IF k \in DOMAIN data THEN data[k] ELSE settings[k]]
    /\ UNCHANGED <<_monitor, _monitor_thread, _stop_monitoring, pending, next_id,
                   handled, tasks, printer_closed, caller, last_call,
                   stop_snapshot, start_delay, stopped_asleep>>

SettingsSave ==
    \E data \in SaveData :
       /\ \E k \in DOMAIN data : data[k] # settings[k]
       /\ on_settings_save(data)

\* ------------------------------------------------------- specifications
\* The steps the worker thread takes by itself, and those with the exception
\* that poll() may or may not raise.
WorkerProgress == MonitorOpen \/ MonitorFilter \/ LoopBreak \/ LoopSkip
                  \/ LoopHandleAdded \/ HandlerMatch \/ HandlerSchedule

WorkerStep == WorkerProgress \/ PollRaises

TaskStep(n) == Wake(n) \/ CheckPrinter(n) \/ ProbePort(n) \/ MessageAndClose(n)
               \/ Connect(n)

Next ==
    \/ on_after_startup
    \/ StopBegin
    \/ StopFinish
    \/ MonitorOpen
    \/ MonitorFilter
    \/ Arrive
    \/ PollRaises
    \/ LoopBreak
    \/ LoopSkip
    \/ LoopHandleAdded
    \/ HandlerMatch
    \/ HandlerSchedule
    \/ \E n \in Ids : Wake(n)
    \/ \E n \in Ids : CheckPrinter(n)
    \/ \E n \in Ids : ProbePort(n)
    \/ \E n \in Ids : MessageAndClose(n)
    \/ \E n \in Ids : Connect(n)
    \/ HostChange
    \/ SettingsSave

Spec == Init /\ [][Next]_vars

\* Threads that can run do run: the worker, every delayed_connect thread and the
\* timed join. The OS source, the host and the callers owe nothing, and poll()
\* owes no exception.
FairSpec ==
    /\ Spec
    /\ WF_vars(WorkerProgress)
    /\ WF_vars(StopFinish)
    /\ \A n \in Ids : WF_vars(TaskStep(n))

\* Saves of the two keys that decide whether and when an attempt is scheduled.
SavedDelays == {2, 5}
RestartSaveData ==
    {[enabled |-> b] : b \in BOOLEAN}
    \cup {[connect_delay_seconds |-> d] : d \in SavedDelays}

RestartSave ==
    \E data \in RestartSaveData :
       /\ \E k \in DOMAIN data : data[k] # settings[k]
       /\ on_settings_save(data)

\* The program with the settings page saving enabled and connect_delay_seconds.
SaveNext ==
    \/ on_after_startup
    \/ StopBegin
    \/ StopFinish
    \/ MonitorOpen
    \/ MonitorFilter
    \/ Arrive
    \/ PollRaises
    \/ LoopBreak
    \/ LoopSkip
    \/ LoopHandleAdded
    \/ HandlerMatch
    \/ HandlerSchedule
    \/ \E n \in Ids : Wake(n)
    \/ \E n \in Ids : CheckPrinter(n)
    \/ \E n \in Ids : ProbePort(n)
    \/ \E n \in Ids : MessageAndClose(n)
    \/ \E n \in Ids : Connect(n)
    \/ HostChange
    \/ RestartSave

SaveSpec == Init /\ [][SaveNext]_vars

\* The filter match on its own: the worker is polling, a settings-save has
\* stored any four filter strings, and an add notification for any device is
\* waiting; the loop handles it.
MatchInit ==
    /\ settings \in MatchSettings
    /\ _monitor = "Monitor"
    /\ _monitor_thread = "poll"
    /\ _stop_monitoring = FALSE
    /\ \E d \in MatchDevices : pending = [id |-> 1, action |-> "add", device |-> d]
    /\ next_id = 2
    /\ handled = [i \in Ids |-> "none"]
    /\ tasks = [i \in Ids |-> NoTask]
    /\ printer_closed = TRUE
    /\ caller = "idle"
    /\ last_call = "started"
    /\ stop_snapshot = NoSnapshot
    /\ start_delay = settings.connect_delay_seconds
    /\ stopped_asleep = {}

MatchNext == LoopHandleAdded \/ HandlerMatch \/ HandlerSchedule

MatchSpec == MatchInit /\ [][MatchNext]_vars

\* ----------------------------------------------------------- claim C1
\* No filter is configured: every stored filter is empty.
NoFilters(s) ==
    /\ s.filter_vendor_id = <<>> /\ s.filter_product_id = <<>>
    /\ s.filter_serial = <<>> /\ s.filter_port = <<>>

\* The loop is done with the waiting notification in this step.
Handles == pending # NoEvent /\ pending' = NoEvent

\* The loop, back from poll() with a notification, acts on it in this step.
Takes ==
    /\ _monitor_thread = "poll" /\ pending # NoEvent
    /\ (pending' = NoEvent \/ _monitor_thread' # "poll")

\* The handler compares the device with the filters in this step, and the
\* comparison gives a result.
Matches ==
    /\ _monitor_thread = "handler"
    /\ (_monitor_thread' = "schedule" \/ handled'[pending.id] = "nomatch")

\* C1: with the plugin enabled and no filters, an add notification for node d that
\* the running loop schedules leads to exactly one connect(port=d, profile=id of
\* the default profile) when no stop is seen at wake-up, the host reports
\* closed/error at the check and the serial probe opens; no notification ever
\* has two connect requests. (An attempt has opened its probe exactly when its
\* port is no longer "unopened"; the attempts whose profile lookup or connect
\* call raised, the ones ended at "Connection attempt failed", are left out.)
C1_ExactlyOneConnect ==
    \A n \in Ids :
       /\ Len(tasks[n].requests) <= 1
       /\ \A i \in 1..Len(tasks[n].requests) :
             /\ tasks[n].requests[i].port = tasks[n].node
             /\ tasks[n].requests[i].profile = DefaultProfile.id
       /\ (Finished(tasks[n]) /\ tasks[n].serial # "unopened"
              /\ tasks[n].pc # "failed") =>
             Len(tasks[n].requests) = 1

\* ----------------------------------------------------------- claim C2
C2_Skipped ==
    \A n \in Ids :
       tasks[n].pc = "skipped" =>
          tasks[n].serial = "unopened" /\ tasks[n].requests = <<>>

C2_Steps ==
    \A n \in Ids :
       \* the check ends the attempt: skipped when the host answers, failed when
       \* the call to the host raises
       /\ (tasks[n].pc = "check" /\ tasks'[n] # tasks[n] /\ ~printer_closed) =>
             /\ tasks'[n].pc \in {"skipped", "failed"}
             /\ Finished(tasks'[n])
             /\ tasks'[n].serial = "unopened"
             /\ tasks'[n].requests = <<>>
       \* an answer other than closed/error is never taken as leave to go on
       /\ (tasks[n].pc = "check" /\ tasks'[n].pc = "probe") => printer_closed
       /\ tasks[n].pc = "skipped" => tasks'[n] = tasks[n]
       /\ (tasks[n].pc = "failed" /\ tasks[n].serial = "unopened") =>
             tasks'[n] = tasks[n]

\* C2: an attempt whose printer check finds the host in any state other than
\* closed/error ends there: its serial port is never opened and it never issues
\* a connect request.
C2_ConnectedHostSkips == []C2_Skipped /\ [][C2_Steps]_vars

C2_Witness ==
    \E n \in Ids : tasks[n].pc = "skipped" /\ ~printer_closed

\* ----------------------------------------------------------- claim C3
\* C3: a delayed_connect thread that a stop found in its sleep ends, when it
\* wakes, cancelled: with no probe of the serial port and no connect request.
C3_StopCancelsSleepingTask ==
    [][\A n \in stopped_asleep :
          (tasks[n].pc = "sleep" /\ tasks'[n] # tasks[n]) =>
             /\ tasks'[n].pc = "cancelled"
             /\ tasks'[n].serial = "unopened"
             /\ tasks'[n].requests = <<>>]_vars

\* ----------------------------------------------------------- claim C4
\* The stored filters of settings s, trimmed, and the fields they are compared to.
TrimmedFilters(s) ==
    <<Strip(s.filter_vendor_id), Strip(s.filter_product_id),
      Strip(s.filter_serial), Strip(s.filter_port)>>

Fields(device) ==
    <<Vendor(device), Product(device), SerialNum(device), Port(device)>>

\* Every non-empty trimmed filter equals its field.
EveryFilterEqual(s, device) ==
    \A i \in 1..4 :
       TrimmedFilters(s)[i] # <<>> => Fields(device)[i] = TrimmedFilters(s)[i]

\* The filters that are set.
SetFilters(s) == {i \in 1..4 : TrimmedFilters(s)[i] # <<>>}

C4_Steps ==
    /\ Matches =>
          /\ _monitor_thread' = "schedule" <=> EveryFilterEqual(settings, pending.device)
          /\ SetFilters(settings) = {} => _monitor_thread' = "schedule"
          /\ \A i \in 1..4 :
                SetFilters(settings) = {i} =>
                   (_monitor_thread' = "schedule"
                       <=> Fields(pending.device)[i] = TrimmedFilters(settings)[i])
    \* only a device that matched is scheduled
    /\ (Handles /\ handled'[pending.id] = "scheduled") => _monitor_thread = "schedule"
    /\ _monitor_thread' = "schedule" => _monitor_thread \in {"handler", "schedule"}

\* C4: for all four stored filters and all device fields, the match accepts the
\* device exactly when every filter that is non-empty after trimming equals its
\* field: always with no filter set, and by the one field alone with one filter set.
C4_MatchesIffEveryFilterEqual == [][C4_Steps]_vars

C4_Witness ==
    /\ handled[1] = "scheduled"
    /\ settings.filter_vendor_id = <<" ", "a", " ">>
    /\ SetFilters(settings) = {1, 4}

\* ----------------------------------------------------------- claim C5
C5_Unscheduled ==
    \A n \in Ids : handled[n] # "scheduled" => tasks[n] = NoTask

C5_Steps ==
    \* a mismatch at the comparison ends the handling
    /\ (_monitor_thread = "handler" /\ _monitor_thread' # "handler"
           /\ ~EveryFilterEqual(settings, pending.device)) =>
          /\ Handles
          /\ handled'[pending.id] \in {"nomatch", "error"}
          /\ tasks' = tasks
    \* and a thread is created only past a comparison that matched
    /\ \A n \in Ids :
          (tasks[n].pc = "none" /\ tasks'[n].pc # "none") =>
             _monitor_thread = "schedule" /\ pending.id = n
    /\ _monitor_thread' = "schedule" => _monitor_thread \in {"handler", "schedule"}
    /\ \A n \in Ids : handled[n] # "none" => handled'[n] = handled[n]

\* C5: an add notification whose fields differ from some non-empty filter gets no
\* delayed_connect thread, then or later, and so no connect request.
C5_MismatchSchedulesNothing == []C5_Unscheduled /\ [][C5_Steps]_vars

C5_Witness ==
    \E n \in Ids :
       /\ handled[n] = "nomatch"
       /\ tasks[n] = NoTask
       /\ \E m \in Ids : m # n /\ tasks[m].pc = "connected"

\* ----------------------------------------------------------- claim C6
\* One iteration of the loop on the waiting notification.
LoopIteration == LoopBreak \/ LoopSkip \/ LoopHandleAdded \/ HandlerMatch
                 \/ HandlerSchedule

\* Whatever the delayed_connect threads are doing, a polling worker can take the
\* notification that waits.
C6_LoopNotBlocked ==
    (_monitor_thread \in {"poll", "handler", "schedule"} /\ pending # NoEvent) =>
       ENABLED LoopIteration

C6_Steps ==
    /\ (Handles /\ handled'[pending.id] = "scheduled") =>
          /\ tasks'[pending.id].pc = "sleep"
          /\ tasks'[pending.id].node = pending.device.node
          /\ \A m \in Ids : m # pending.id => tasks'[m] = tasks[m]
          /\ _monitor_thread' = "poll"
    /\ \A n \in Ids :
          (~Handles /\ tasks'[n] # tasks[n]) =>
             /\ \A m \in Ids : m # n => tasks'[m] = tasks[m]
             /\ UNCHANGED <<_monitor_thread, pending, handled>>

\* C6: each matching add notification gets a delayed_connect thread of its own for
\* its own node, other threads are left as they are, and the loop is back at its
\* poll in the same step: it takes further notifications while earlier threads
\* still sleep or connect.
C6_IndependentTasksLoopNotBlocked == []C6_LoopNotBlocked /\ [][C6_Steps]_vars

C6_Witness ==
    /\ tasks[1].pc = "sleep" /\ tasks[2].pc = "sleep"
    /\ tasks[1].node # tasks[2].node
    /\ _monitor_thread = "poll"

\* ----------------------------------------------------------- claim C7
\* A call of _stop_udev_monitor returns in this step.
StopReturns ==
    \/ caller = "join" /\ caller' = "idle"
    \/ /\ caller = "idle" /\ caller' = "idle"
       /\ last_call' # last_call /\ last_call' \in {"stop", "stop_again"}

C7_Steps ==
    StopReturns =>
       /\ _monitor' = "None"
       /\ _monitor_thread' = _monitor_thread
       /\ _stop_monitoring' = IF _monitor_thread = "None" THEN _stop_monitoring ELSE TRUE
       /\ last_call \in {"stop", "stop_again"} => MonitorState' = stop_snapshot

\* C7: every stop returns (there is no raising path) with the monitor stopped: the
\* handle dropped and, once a thread was ever started, the stop flag raised; a
\* stop that follows a stop leaves the monitor fields exactly as the first did,
\* and a stop without a thread changes nothing.
C7_StopIdempotent == [][C7_Steps]_vars

C7_Witness ==
    /\ last_call = "stop_again"
    /\ caller = "idle"
    /\ _monitor_thread = "break"
    /\ MonitorState = stop_snapshot

\* ----------------------------------------------------------- claim C8
\* C8: once a stop has been called on a started monitor, the worker thread
\* eventually is no longer alive, whether or not another notification arrives.
\* (Stated for a stop called while the OS source could still deliver, so that a
\* worker left waiting is not waiting for want of notifications in the run.)
C8_StopEndsWorker ==
    (caller = "join" /\ next_id <= MaxEvents) ~> ~is_alive(_monitor_thread)

\* ----------------------------------------------------------- claim C9
\* C9: a worker that ended because opening the subscription raised was never
\* reported as started by the start that created it.
C9_OpenErrorReported ==
    _monitor_thread = "open_error" => last_call # "started"

\* ----------------------------------------------------------- claim C10
\* A polling worker takes a waiting add notification however earlier
\* notifications and attempts ended.
C10_NextAddHandled ==
    (_monitor_thread = "poll" /\ pending # NoEvent /\ pending.action = "add"
        /\ ~_stop_monitoring) => ENABLED LoopHandleAdded

C10_Steps ==
    /\ (Handles /\ handled'[pending.id] \in {"error", "worker_died"}) =>
          /\ _monitor_thread' = "poll"
          /\ UNCHANGED <<_monitor, _stop_monitoring, tasks>>
    /\ \A n \in Ids :
          (tasks[n].pc # "none" /\ tasks'[n] # tasks[n]) =>
             UNCHANGED <<_monitor_thread, _monitor, _stop_monitoring, pending, handled>>

\* C10: an error raised while a notification is handled (reading the settings
\* and the attributes, matching, scheduling) leaves the worker at its poll, and
\* no step of a connect attempt, failing or not, touches the worker: the loop
\* goes on to handle the next add.
C10_ErrorsKeepLoopRunning == []C10_NextAddHandled /\ [][C10_Steps]_vars

\* ----------------------------------------------------------- claim C11
\* C11: an attempt whose probe port is open always goes on to the connect call,
\* also when the courtesy message is enabled and one of its writes raises.
C11_WriteErrorStillConnects ==
    [][\A n \in Ids :
          (tasks[n].pc = "opened" /\ tasks'[n] # tasks[n]) =>
             tasks'[n].pc = "connect"]_vars

\* ----------------------------------------------------------- claim C12
C12_PortFailed ==
    \A n \in Ids :
       (tasks[n].pc = "port_failed" /\ tasks[n].serial = "unopened") =>
          tasks[n].requests = <<>>

C12_Steps ==
    \A n \in Ids :
       \* a probe that does not open the port ends the attempt
       /\ (tasks[n].pc = "probe" /\ tasks'[n] # tasks[n]
              /\ tasks'[n].serial = "unopened") =>
             /\ tasks'[n].pc = "port_failed"
             /\ tasks'[n].requests = <<>>
       \* no second try: the attempt stays ended
       /\ tasks[n].pc = "port_failed" => tasks'[n] = tasks[n]
       \* and a new attempt comes only from the loop handling an add notification
       /\ (tasks[n].pc = "none" /\ tasks'[n].pc # "none") =>
             /\ Handles /\ pending.id = n /\ pending.action = "add"
             /\ tasks'[n].pc = "sleep"

\* C12: an attempt whose serial probe does not open the node issues no connect
\* request and is never tried again; further probes and connects come only from
\* attempts that a new add notification schedules.
C12_ProbeFailureAbortsNoRetry == []C12_PortFailed /\ [][C12_Steps]_vars

C12_Witness ==
    \E n \in Ids :
       /\ tasks[n].pc = "port_failed"
       /\ tasks[n].serial = "unopened"
       /\ \E m \in Ids : m > n /\ tasks[m].pc = "connected"
                            /\ tasks[m].node = tasks[n].node

\* ----------------------------------------------------------- claim C13
\* ID_PATH values a tty notification may carry: no colon, one colon, several,
\* empty fields, and the path of the Arduino above.
PortPaths ==
    {<<>>, <<":">>, <<"a">>, <<"a", ":">>, <<":", "b">>, <<"a", ":", "b">>,
     <<"a", ":", "b", ":", "c">>, <<"a", ":", ":", "c">>, <<":", ":">>,
     <<"a", ":", "b", "2", ":">>, Arduino.attrs.ID_PATH}

\* The notified devices: with each ID_PATH, and with no ID_PATH property.
PortDevices ==
    {[node |-> "/dev/ttyUSB0",
      attrs |-> [ID_VENDOR_ID |-> <<"a">>, ID_PATH |-> path]] :
        path \in PortPaths}
    \cup {[node |-> "/dev/ttyUSB0", attrs |-> [ID_VENDOR_ID |-> <<"a">>]]}

PortFilters ==
    {<<>>, <<"b">>, <<"U+2003", "b">>, <<"c">>, <<"a">>, <<"b", "2">>, Unknown, NA,
     <<"1", ".", "2">>, <<"1", ".", "1">>}

PortSettings ==
    {[SettingsDefaults EXCEPT !.filter_port = f] : f \in PortFilters}

\* The loop holds one add notification of one device, under one port filter.
PortInit ==
    /\ settings \in PortSettings
    /\ _monitor = "Monitor"
    /\ _monitor_thread = "poll"
    /\ _stop_monitoring = FALSE
    /\ \E d \in PortDevices : pending = [id |-> 1, action |-> "add", device |-> d]
    /\ next_id = 2
    /\ handled = [i \in Ids |-> "none"]
    /\ tasks = [i \in Ids |-> NoTask]
    /\ printer_closed = TRUE
    /\ caller = "idle"
    /\ last_call = "started"
    /\ stop_snapshot = NoSnapshot
    /\ start_delay = settings.connect_delay_seconds
    /\ stopped_asleep = {}

PortSpec == PortInit /\ [][MatchNext]_vars

\* The text between the first colon of s and its next colon, or its end.
SecondField(s) ==
    LET rest == SubSeq(s, FirstIndex(s, Colon) + 1, Len(s))
        stop == IF Contains(rest, Colon) THEN FirstIndex(rest, Colon)
                                         ELSE Len(rest) + 1
    IN  SubSeq(rest, 1, stop - 1)

ExpectedPort(device) ==
    IF "ID_PATH" \in DOMAIN device.attrs /\ Contains(device.attrs.ID_PATH, Colon)
    THEN SecondField(device.attrs.ID_PATH)
    ELSE Unknown

C13_Port ==
    /\ pending # NoEvent => Port(pending.device) = ExpectedPort(pending.device)
    /\ (pending # NoEvent /\ UsbPath(pending.device) = UsbPath(Arduino)) =>
          Port(pending.device) = <<"1", ".", "2">>

\* the port filter is compared with that port
C13_Steps ==
    Matches =>
       (_monitor_thread' = "schedule" <=>
           \/ Strip(settings.filter_port) = <<>>
           \/ Strip(settings.filter_port) = ExpectedPort(pending.device))

\* C13: the port of a notified device is the second colon-delimited field of
\* its ID_PATH when the path has a colon and "Unknown" otherwise (no colon,
\* no ID_PATH); "platform-3f980000-usb-1.1:1.2:1.0" gives "1.2".
C13_PortIsSecondField == []C13_Port /\ [][C13_Steps]_vars

C13_Witness ==
    /\ handled[1] = "scheduled"
    /\ Strip(settings.filter_port) = <<"b">>
    /\ tasks[1].pc = "sleep"

\* ----------------------------------------------------------- claim C14
\* A step in which a start call returns.
StartReturns ==
    /\ last_call' \in {"started", "already"}
    /\ <<last_call', stop_snapshot'>> # <<last_call, stop_snapshot>>

C14_Steps ==
    /\ (StartReturns /\ is_alive(_monitor_thread)) =>
          /\ last_call' = "already"
          /\ UNCHANGED <<_stop_monitoring, _monitor, _monitor_thread, settings,
                         pending, next_id, handled, tasks, printer_closed, caller>>
    \* whoever steps: a live worker is never replaced, a raised flag never cleared
    /\ is_alive(_monitor_thread) =>
          /\ _monitor_thread' = "started" => _monitor_thread = "started"
          /\ _stop_monitoring => _stop_monitoring'

\* C14: a start call that finds the worker thread alive changes nothing: no
\* second worker is created and the thread, the monitor handle and the stop
\* flag stay as they were.
C14_StartWhileRunningNoOp == [][C14_Steps]_vars

C14_Witness ==
    /\ last_call = "already"
    /\ caller = "idle"
    /\ _monitor_thread = "poll"
    /\ _stop_monitoring
    /\ _monitor = "None"

\* ----------------------------------------------------------- claim C15
C15_Steps ==
    \* the notification polled with the flag raised ends the loop unhandled
    /\ (Takes /\ _stop_monitoring) =>
          /\ handled'[pending.id] = "dropped"
          /\ _monitor_thread' = "break"
          /\ tasks' = tasks
    \* and the ended loop takes no notification
    /\ (_monitor_thread = "break" /\ _monitor_thread' = "break") =>
          UNCHANGED <<pending, handled>>

\* C15: with the stop flag raised the loop handles no further notification: the
\* first one it polls, whatever its action, makes it leave the loop without
\* reading the device, matching it or scheduling a connection.
C15_StoppedLoopHandlesNothing == [][C15_Steps]_vars

C15_Witness ==
    \E n \in Ids :
       /\ handled[n] = "dropped"
       /\ tasks[n] = NoTask
       /\ _monitor_thread = "break"
       /\ settings.enabled
       /\ NoFilters(settings)

\* ----------------------------------------------------------- claim C16
\* C16 as stated: whatever the interleaving of attempts and manual connects, a
\* connect request is issued only while the host is closed or in error.
C16_NeverConnectsWhenNotClosed ==
    [][\A n \in Ids :
          tasks'[n].requests # tasks[n].requests => printer_closed]_vars

C16_Steps ==
    \A n \in Ids :
       \* the check lets the attempt go on only when the host is closed/error;
       \* otherwise, or when the call to the host raises, the attempt ends
       /\ (tasks[n].pc = "check" /\ tasks'[n] # tasks[n]) =>
             /\ tasks'[n].pc \in {"probe", "skipped", "failed"}
             /\ tasks'[n].pc = "probe" => printer_closed
             /\ tasks'[n].pc = "skipped" => ~printer_closed
       \* and the request is reached only through that check
       /\ (tasks'[n].pc = "probe" /\ tasks[n].pc # "probe") => tasks[n].pc = "check"
       /\ (tasks'[n].pc = "opened" /\ tasks[n].pc # "opened") => tasks[n].pc = "probe"
       /\ (tasks'[n].pc = "connect" /\ tasks[n].pc # "connect") =>
             tasks[n].pc = "opened"
       /\ tasks'[n].requests # tasks[n].requests => tasks[n].pc = "connect"

\* C16 (amended): a connect request is issued only by an attempt whose own
\* check found the host closed or in error; the check and the request are two
\* steps, and the host may have left that state in between.
C16_ConnectOnlyAfterOwnCheck == [][C16_Steps]_vars

C16_Witness ==
    \E n, m \in Ids :
       /\ n # m
       /\ tasks[n].pc = "connected"
       /\ tasks[m].pc = "connect"
       /\ ~printer_closed

\* ----------------------------------------------------------- claim C17
C17_SaveLeavesMonitor ==
    settings' # settings =>
       UNCHANGED <<_monitor, _monitor_thread, _stop_monitoring, pending, handled,
                   tasks>>

\* C17: a save does not restart the monitor, and until the next start the loop
\* handles add notifications as when it was started: it was started with the
\* plugin enabled (line 152), so no add is skipped as disabled, and every
\* attempt it schedules sleeps the delay that was stored at the start.
C17_SaveHasNoEffectUntilRestart ==
    [][/\ C17_SaveLeavesMonitor
       /\ (Handles /\ pending.action = "add" /\ ~_stop_monitoring) =>
             handled'[pending.id] # "disabled"
       /\ (Handles /\ handled'[pending.id] = "scheduled") =>
             tasks'[pending.id].delay = start_delay]_vars

\* ----------------------------------------------------------- claim C18
\* C18: a start call that follows a stop leaves a live worker and a cleared
\* stop flag, so that the next matching add notification is handled and not
\* taken as the signal to leave the loop. (Stated for a worker that has reached
\* its poll or has ended by the time of the stop's return.)
C18_StartAfterStopRuns ==
    [][(/\ last_call \in {"stop", "stop_again"}
        /\ last_call' \in {"started", "already"}
        /\ _monitor_thread \notin {"started", "filter"})
          => (is_alive(_monitor_thread') /\ ~_stop_monitoring')]_vars

\* ----------------------------------------------------------- claim C19
\* A stop was requested while the delayed_connect thread n was asleep (or, at
\* the earliest, while its notification was being handled): a later
\* notification was polled with the flag raised, and n, whose notification was
\* taken with the flag down before that, has not woken yet.
StoppedWhileAsleep(n) ==
    /\ tasks[n].pc = "sleep"
    /\ \E m \in Ids : m > n /\ handled[m] = "dropped"

\* C19: a delayed_connect thread that was asleep when a stop was requested
\* finds itself cancelled when it wakes and issues no connect request, also
\* when a start call has come in between.
C19_StopNotUndoneForPendingTasks ==
    [][\A n \in Ids :
          (StoppedWhileAsleep(n) /\ tasks'[n] # tasks[n]) =>
             /\ tasks'[n].pc = "cancelled"
             /\ tasks'[n].requests = <<>>]_vars

\* ----------------------------------------------------------- claim C20
\* C20: no finished attempt leaves its probe port open, whatever the way out
\* of the attempt, and the port is closed by the time of the connect request.
C20_ProbePortAlwaysClosed ==
    \A n \in Ids :
       /\ Finished(tasks[n]) => tasks[n].serial # "open"
       /\ tasks[n].requests # <<>> => tasks[n].serial = "closed"
       /\ tasks[n].pc = "connect" => tasks[n].serial = "closed"
====
